---- MODULE Spec2Model ----
(***************************************************************************)
(* Model of the MOT_CEL guardrail and streaming layer:                     *)
(*   src/guardrails.py        RateLimiter, FrameValidator,                 *)
(*                            DetectionValidator                           *)
(*   src/websocket_server.py  VideoStreamHandler, handle_client,           *)
(*                            broadcast_stats                              *)
(*   src/yolo_service.py      YOLOTracker                                  *)
(*                                                                         *)
(* Time is counted in ticks, TicksPerSecond ticks to the second, so that   *)
(* "now - req_time < 1.0" reads "now - req_time < TicksPerSecond".         *)
(* Python's None is the string None; a dict is a record that carries the   *)
(* set of its keys in the field "keys".                                    *)
(***************************************************************************)
EXTENDS Integers, Sequences, FiniteSets, TLC

VARIABLES
    now,                \* time.time(), in ticks
    _requests,          \* RateLimiter._requests: session -> list of timestamps
    limit,              \* the max_per_second the caller of check passes
    admitted,           \* history: per session, the timestamps check admitted
    lastCheck,          \* history: the last guardrail call, its payload and result
    ncalls,             \* history: guardrail calls made since the initial state
    lastSession,        \* history: the last validate_session_id call and its result
    pc,                 \* per connection: where handle_client stands
    open,               \* per connection: the transport is still open
    session_id,         \* per connection: handle_client's local session_id
    active_connections, \* VideoStreamHandler.active_connections
    session_data,       \* VideoStreamHandler.session_data
    inflight,           \* per connection: the frame process_frame has posted
    sent,               \* history: per connection, what websocket.send carried
    lastReq,            \* history: per connection, the last message handled
    nrecv,              \* history: messages received in the loops so far
    detections,         \* validate_detections: the batch handed in
    frame_shape,        \* validate_detections: the frame shape handed in
    stage,              \* "input", "validated" or "revalidated"
    result,             \* what validate_detections returned for the batch
    again,              \* what it returned for its own output
    trackers,           \* YOLOTracker.trackers: session -> tracks, in dict order
    track_id_counter,   \* YOLOTracker.track_id_counter
    track_history,      \* YOLOTracker.track_history: track id -> centroids
    assigned,           \* history: the _assign_track_id calls of the last frame
    allocated,          \* history: the fresh ids, in the order they were handed out
    arrivals,           \* history: track id -> every centroid ever appended
    nframes,            \* history: per session, the frames detect_and_track saw
    broadcasting,       \* the broadcast_stats task is in its loop
    cycles,             \* history: the cycles broadcast_stats has run
    lastCycle           \* history: whom the last cycle reached and whom it failed

rateVars == <<now, _requests, limit, admitted, lastCheck, ncalls, lastSession>>
connVars == <<pc, open, session_id, active_connections, session_data,
              inflight, sent, lastReq, nrecv>>
detVars == <<detections, frame_shape, stage, result, again>>
trackVars == <<trackers, track_id_counter, track_history, assigned, allocated,
               arrivals, nframes>>
statsVars == <<broadcasting, cycles, lastCycle>>
vars == <<now, _requests, limit, admitted, lastCheck, ncalls, lastSession, pc, open,
          session_id, active_connections, session_data, inflight, sent,
          lastReq, nrecv, detections, frame_shape, stage, result, again,
          trackers, track_id_counter, track_history, assigned, allocated,
          arrivals, nframes, broadcasting, cycles, lastCycle>>

---------------------------------------------------------------------------
\* Bounds of the model.
TicksPerSecond == 2
MaxTime == 4
MaxLimit == 2
MaxCalls == 1
MaxMsgs == 2
MaxCycles == 2
MaxBurst == 32
BurstTime == 2

\* Program constants.
MAX_FRAME_SIZE == 10485760
MIN_FRAME_DIMENSION == 32
MAX_FRAME_DIMENSION == 4096
MAX_FPS_PER_SESSION == 30
MIN_BASE64_LENGTH == 100

None == "<None>"
Truthy(v) == v \notin {None, ""}

RateSessions == {"abc-1", "unknown"}

\* A session id that is no string but a list: a value that cannot be the key
\* of a dict, so that RateLimiter._requests[session_id] raises TypeError.
Unhashable == "<list>"
Hashable(s) == s # Unhashable
Conns == {"ws1", "ws2"}

---------------------------------------------------------------------------
\* RateLimiter

\* The list comprehension of check: the timestamps less than a second old.
recent(requests, t) == SelectSeq(requests, LAMBDA req_time : t - req_time < TicksPerSecond)

\* A check that appends the timestamp of a request it rejects as well.
check_records_rejected(requests, t, max_per_second) ==
    LET kept == recent(requests, t)
    IN  [allowed |-> Len(kept) < max_per_second, requests |-> Append(kept, t)]

\* RateLimiter.check on one session's list, at time t.
check(requests, t, max_per_second) ==
    LET kept == recent(requests, t)
    IN  IF Len(kept) >= max_per_second
        THEN [allowed |-> FALSE, requests |-> kept]
        ELSE [allowed |-> TRUE, requests |-> Append(kept, t)]

\* defaultdict(list): a missing key reads as the empty list.
window(s) == IF s \in DOMAIN _requests THEN _requests[s] ELSE <<>>

setWindow(s, w) == [k \in DOMAIN _requests \cup {s} |-> IF k = s THEN w ELSE _requests[k]]

\* A reset that forgets the lists of all sessions.
reset_session_clears_all(s) == [k \in {} |-> <<>>]

\* RateLimiter.reset_session
reset_session(s) == [k \in DOMAIN _requests \ {s} |-> _requests[k]]

---------------------------------------------------------------------------
\* FrameValidator.validate_frame_data

\* A frame payload, by what the validator looks at: whether it is a str, its
\* length, whether the part after the last comma is strict base64, the number
\* of decoded bytes, whether cv2.imdecode yields an image, and its shape.
Payload(isstr, len, b64, nbytes, img, h, w, ch) ==
    [isstr |-> isstr, len |-> len, b64 |-> b64, nbytes |-> nbytes,
     img |-> img, h |-> h, w |-> w, ch |-> ch]

GoodFrame == Payload(TRUE, 5000, TRUE, 3000, TRUE, 64, 64, 3)

EmptyFrame == Payload(TRUE, 0, TRUE, 0, FALSE, 0, 0, 0)
ShortFrame == Payload(TRUE, 99, TRUE, 72, TRUE, 64, 64, 3)

\* The frame data the connections and the callers of this model send.
FrameDataSamples == {GoodFrame, EmptyFrame, ShortFrame}

\* The shortest string that is accepted and the smallest image.
LowFrame == Payload(TRUE, MIN_BASE64_LENGTH, TRUE, 75, TRUE, MIN_FRAME_DIMENSION, MIN_FRAME_DIMENSION, 3)

\* The longest string that is accepted and the largest image.
HighFrame == Payload(TRUE, MAX_FRAME_SIZE, TRUE, 7864320, TRUE, MAX_FRAME_DIMENSION, MAX_FRAME_DIMENSION, 3)

\* The payloads validate_frame_data is called with, around each of its
\* limits.  The decoded bytes number three quarters of the encoded length at
\* most, so no payload of an accepted length decodes to more than 10 MiB.
PayloadSamples ==
    { GoodFrame,
      EmptyFrame,
      Payload(FALSE, 1, FALSE, 0, FALSE, 0, 0, 0),        \* a number, a list
      Payload(FALSE, 0, FALSE, 0, FALSE, 0, 0, 0),        \* null, 0, []
      ShortFrame,
      Payload(TRUE, 5000, FALSE, 0, FALSE, 0, 0, 0),
      Payload(TRUE, 5000, TRUE, 3000, TRUE, 31, 64, 3),
      LowFrame,
      HighFrame,
      Payload(TRUE, MAX_FRAME_SIZE + 1, TRUE, 7864320, TRUE, 64, 64, 3),
      Payload(TRUE, 5000, TRUE, 0, FALSE, 0, 0, 0),       \* nothing after the comma
      Payload(TRUE, 5000, TRUE, 1, FALSE, 0, 0, 0),       \* bytes that are no image
      Payload(TRUE, 5000, TRUE, 3000, TRUE, 64, 31, 3),
      Payload(TRUE, 5000, TRUE, 3000, TRUE, 4097, 64, 3),
      Payload(TRUE, 5000, TRUE, 3000, TRUE, 64, 4097, 3),
      Payload(TRUE, 5000, TRUE, 3000, TRUE, 64, 64, 1),
      Payload(TRUE, 5000, TRUE, 3000, TRUE, 64, 64, 4) }

\* Python truth of the payload: a non-empty str, or a non-zero/non-empty value.
PayloadTruthy(p) == p.len > 0

\* Checks that turn away a string of exactly the minimum length.
structural_rejects_minimum(p) ==
    IF ~PayloadTruthy(p) \/ ~p.isstr THEN "empty"
    ELSE IF p.len > MAX_FRAME_SIZE THEN "too_large"
    ELSE IF p.len <= MIN_BASE64_LENGTH THEN "too_small"
    ELSE IF ~p.b64 THEN "bad_base64"
    ELSE IF p.nbytes = 0 THEN "decoded_empty"
    ELSE IF p.nbytes > MAX_FRAME_SIZE THEN "decoded_too_large"
    ELSE IF ~p.img THEN "not_image"
    ELSE IF p.h < MIN_FRAME_DIMENSION \/ p.w < MIN_FRAME_DIMENSION THEN "dim_too_small"
    ELSE IF p.h > MAX_FRAME_DIMENSION \/ p.w > MAX_FRAME_DIMENSION THEN "dim_too_large"
    ELSE IF p.h <= 0 \/ p.w <= 0 THEN "dim_invalid"
    ELSE IF p.ch # 3 THEN "channels"
    ELSE "OK"

\* Steps 1 to 10: the reason of the first structural check that fails, or "OK".
structural(p) ==
    IF ~PayloadTruthy(p) \/ ~p.isstr THEN "empty"
    ELSE IF p.len > MAX_FRAME_SIZE THEN "too_large"
    ELSE IF p.len < MIN_BASE64_LENGTH THEN "too_small"
    ELSE IF ~p.b64 THEN "bad_base64"
    ELSE IF p.nbytes = 0 THEN "decoded_empty"
    ELSE IF p.nbytes > MAX_FRAME_SIZE THEN "decoded_too_large"
    ELSE IF ~p.img THEN "not_image"
    ELSE IF p.h < MIN_FRAME_DIMENSION \/ p.w < MIN_FRAME_DIMENSION THEN "dim_too_small"
    ELSE IF p.h > MAX_FRAME_DIMENSION \/ p.w > MAX_FRAME_DIMENSION THEN "dim_too_large"
    ELSE IF p.h <= 0 \/ p.w <= 0 THEN "dim_invalid"
    ELSE IF p.ch # 3 THEN "channels"
    ELSE "OK"

\* A validator that asks the rate limiter before it looks at the payload.
validate_frame_data_rate_first(p, s, t) ==
    LET why == structural(p)
        rate == check(window(s), t, MAX_FPS_PER_SESSION)
    IN  IF ~rate.allowed
        THEN [is_valid |-> FALSE, error |-> "rate_limit", frame |-> <<>>,
              checked |-> TRUE, requests |-> rate.requests]
        ELSE IF why # "OK"
        THEN [is_valid |-> FALSE, error |-> why, frame |-> <<>>,
              checked |-> TRUE, requests |-> rate.requests]
        ELSE [is_valid |-> TRUE, error |-> "OK",
              frame |-> <<[h |-> p.h, w |-> p.w, ch |-> p.ch]>>,
              checked |-> TRUE, requests |-> rate.requests]

\* A validator that hands back the frame it decoded when the rate limiter
\* turns the request away.
validate_frame_data_keeps_frame(p, s, t) ==
    LET why == structural(p)
        rate == check(window(s), t, MAX_FPS_PER_SESSION)
    IN  IF why # "OK"
        THEN [is_valid |-> FALSE, error |-> why, frame |-> <<>>,
              checked |-> FALSE, requests |-> window(s)]
        ELSE IF ~Hashable(s)
        THEN [is_valid |-> FALSE, error |-> "exception", frame |-> <<>>,
              checked |-> FALSE, requests |-> window(s)]
        ELSE IF ~rate.allowed
        THEN [is_valid |-> FALSE, error |-> "rate_limit",
              frame |-> <<[h |-> p.h, w |-> p.w, ch |-> p.ch]>>,
              checked |-> TRUE, requests |-> rate.requests]
        ELSE [is_valid |-> TRUE, error |-> "OK",
              frame |-> <<[h |-> p.h, w |-> p.w, ch |-> p.ch]>>,
              checked |-> TRUE, requests |-> rate.requests]

\* validate_frame_data: (is_valid, error_message, decoded_frame) and the
\* session's list as step 11 leaves it; frame is <<>> for None.
validate_frame_data(p, s, t) ==
    LET why == structural(p)
        rate == check(window(s), t, MAX_FPS_PER_SESSION)
    IN  IF why # "OK"
        THEN [is_valid |-> FALSE, error |-> why, frame |-> <<>>,
              checked |-> FALSE, requests |-> window(s)]
        ELSE IF ~Hashable(s)
        THEN \* line 44 raises, and the except of lines 159-161 returns
             [is_valid |-> FALSE, error |-> "exception", frame |-> <<>>,
              checked |-> FALSE, requests |-> window(s)]
        ELSE IF ~rate.allowed
        THEN [is_valid |-> FALSE, error |-> "rate_limit", frame |-> <<>>,
              checked |-> TRUE, requests |-> rate.requests]
        ELSE [is_valid |-> TRUE, error |-> "OK",
              frame |-> <<[h |-> p.h, w |-> p.w, ch |-> p.ch]>>,
              checked |-> TRUE, requests |-> rate.requests]

NoCheck ==
    [op |-> "none", session |-> None, payload |-> EmptyFrame, allowed |-> FALSE,
     error |-> "", frame |-> <<>>, at |-> 0]

\* validate_session_id
\*
\* A session id value: what is no string by its truth value, a string by the
\* number of its characters of each sort: ASCII letters and digits,
\* underscores, hyphens, other characters str.isalnum holds of (as of "\u00e9"
\* and "\u0663"), and all the rest (as " " and "!").
MAX_SESSION_ID_LENGTH == 256

Id(alnum, underscore, hyphen, wide, other) ==
    [isstr |-> TRUE, truthy |-> alnum + underscore + hyphen + wide + other > 0,
     alnum |-> alnum, underscore |-> underscore, hyphen |-> hyphen,
     wide |-> wide, other |-> other]
NotAString(truthy) ==
    [isstr |-> FALSE, truthy |-> truthy, alnum |-> 0, underscore |-> 0,
     hyphen |-> 0, wide |-> 0, other |-> 0]

\* len(s)
strlen(s) == s.alnum + s.underscore + s.hyphen + s.wide + s.other
\* s.replace("_", "") and s.replace("-", "")
strip_underscores(s) == Id(s.alnum, 0, s.hyphen, s.wide, s.other)
strip_hyphens(s) == Id(s.alnum, s.underscore, 0, s.wide, s.other)
\* s.isalnum(): at least one character, and every character a letter or digit
isalnum(s) ==
    strlen(s) > 0 /\ s.underscore = 0 /\ s.hyphen = 0 /\ s.other = 0

validate_session_id(v) ==
    IF ~v.truthy THEN [is_valid |-> FALSE, error |-> "empty"]
    ELSE IF ~v.isstr THEN [is_valid |-> FALSE, error |-> "not_str"]
    ELSE IF strlen(v) > MAX_SESSION_ID_LENGTH
    THEN [is_valid |-> FALSE, error |-> "too_long"]
    ELSE IF strlen(v) < 1 THEN [is_valid |-> FALSE, error |-> "too_short"]
    ELSE IF ~isalnum(strip_hyphens(strip_underscores(v)))
    THEN [is_valid |-> FALSE, error |-> "invalid_chars"]
    ELSE [is_valid |-> TRUE, error |-> "OK"]

NoSession ==
    [called |-> FALSE, value |-> NotAString(FALSE), is_valid |-> FALSE,
     error |-> ""]

---------------------------------------------------------------------------
\* The guardrail calls, as any caller in the process makes them.

Tick ==
    /\ now < MaxTime
    /\ now' = now + 1
    /\ UNCHANGED <<_requests, limit, admitted, lastCheck, ncalls, lastSession>>
    /\ UNCHANGED connVars
    /\ UNCHANGED detVars
    /\ UNCHANGED trackVars
    /\ UNCHANGED statsVars

Check(s) ==
    LET r == check(window(s), now, limit)
    IN  /\ _requests' = setWindow(s, r.requests)
        /\ admitted' = IF r.allowed
                       THEN [admitted EXCEPT ![s] = Append(@, now)]
                       ELSE admitted
        /\ lastCheck' = [op |-> "check", session |-> s, payload |-> EmptyFrame,
                         allowed |-> r.allowed,
                         error |-> IF r.allowed THEN "OK" ELSE "rate_limit",
                         frame |-> <<>>, at |-> now]
        /\ UNCHANGED <<now, limit, ncalls, lastSession>>
        /\ UNCHANGED connVars
        /\ UNCHANGED detVars
        /\ UNCHANGED trackVars
        /\ UNCHANGED statsVars

ResetSession(s) ==
    /\ s \in DOMAIN _requests
    /\ _requests' = reset_session(s)
    /\ admitted' = [admitted EXCEPT ![s] = <<>>]
    /\ lastCheck' = [op |-> "reset", session |-> s, payload |-> EmptyFrame,
                     allowed |-> FALSE,
                     error |-> "", frame |-> <<>>, at |-> now]
    /\ UNCHANGED <<now, limit, ncalls, lastSession>>
    /\ UNCHANGED connVars
    /\ UNCHANGED detVars
    /\ UNCHANGED trackVars
    /\ UNCHANGED statsVars

ValidateFrameData(s, p) ==
    LET r == validate_frame_data(p, s, now)
    IN  /\ ncalls' = ncalls + 1
        /\ _requests' = IF r.checked THEN setWindow(s, r.requests) ELSE _requests
        /\ admitted' = IF r.is_valid
                       THEN [admitted EXCEPT ![s] = Append(@, now)]
                       ELSE admitted
        /\ lastCheck' = [op |-> "validate", session |-> s, payload |-> p,
                         allowed |-> r.is_valid,
                         error |-> r.error, frame |-> r.frame, at |-> now]
        /\ UNCHANGED <<now, limit, lastSession>>
        /\ UNCHANGED connVars
        /\ UNCHANGED detVars
        /\ UNCHANGED trackVars
        /\ UNCHANGED statsVars

\* validate_session_id is called with v.
ValidateSessionId(v) ==
    LET r == validate_session_id(v)
    IN  /\ lastSession' = [called |-> TRUE, value |-> v,
                           is_valid |-> r.is_valid, error |-> r.error]
        /\ UNCHANGED <<now, _requests, limit, admitted, lastCheck, ncalls>>
        /\ UNCHANGED connVars
        /\ UNCHANGED detVars
        /\ UNCHANGED trackVars
        /\ UNCHANGED statsVars

---------------------------------------------------------------------------
\* VideoStreamHandler and handle_client

SidValues == {"abc-1", "", None}

\* The first message of a connection: json.loads fails ("bad"), yields a
\* value that is no dict ("nonobject"), or yields a dict with or without the
\* key session_id.
HandshakeMsgs ==
    { [json |-> j, has_sid |-> FALSE, session_id |-> None] : j \in {"bad", "nonobject", "object"} }
    \cup { [json |-> "object", has_sid |-> TRUE, session_id |-> s] : s \in SidValues }

Dict(keys, error, dets, annotated, ts) ==
    [keys |-> keys, error |-> error, detections |-> dets,
     annotated_frame |-> annotated, timestamp |-> ts]

\* What the inference boundary answers to the POST of process_frame.
Outcomes ==
    { [status |-> "ok",
       body |-> Dict({"detections", "frame_shape", "timestamp", "session_id", "annotated_frame"},
                     "", <<7>>, "jpg", 1)],
      [status |-> "ok",
       body |-> Dict({"error", "detections", "frame_shape", "timestamp", "session_id"},
                     "Failed to decode frame", <<>>, "", 1)],
      [status |-> "non200", body |-> Dict({}, "", <<>>, "", 0)],
      [status |-> "timeout", body |-> Dict({}, "", <<>>, "", 0)],
      [status |-> "client_error", body |-> Dict({}, "", <<>>, "", 0)] }

\* VideoStreamHandler.process_frame: the dict it returns for an outcome.
process_frame(o) ==
    IF o.status = "ok" THEN o.body
    ELSE IF o.status = "non200" THEN Dict({"error"}, "Processing error", <<>>, "", 0)
    ELSE IF o.status = "timeout" THEN Dict({"error"}, "Processing timeout", <<>>, "", 0)
    ELSE Dict({"error"}, "Connection error", <<>>, "", 0)

\* The detection_result message handle_client builds from that dict.
response(sid, res) ==
    [type |-> "detection_result",
     keys |-> {"type", "session_id", "detections", "annotated_frame", "timestamp"},
     session_id |-> sid,
     error |-> "",
     detections |-> IF "detections" \in res.keys THEN res.detections ELSE <<>>,
     annotated_frame |-> IF "annotated_frame" \in res.keys THEN res.annotated_frame ELSE "",
     timestamp |-> IF "timestamp" \in res.keys THEN res.timestamp ELSE 0]

Plain(type, sid) ==
    [type |-> type,
     keys |-> IF type = "connected" THEN {"type", "session_id", "message"} ELSE {"type"},
     session_id |-> sid, error |-> "", detections |-> <<>>,
     annotated_frame |-> "", timestamp |-> 0]

\* VideoStreamHandler.register
register(ws, sid) ==
    [conns |-> active_connections \cup {ws},
     data |-> [k \in DOMAIN session_data \cup {sid} |->
                  IF k = sid THEN [websocket |-> ws, frames_processed |-> 0, last_fps |-> 0]
                  ELSE session_data[k]]]

\* VideoStreamHandler.unregister
unregister(ws, sid) ==
    [conns |-> active_connections \ {ws},
     data |-> [k \in DOMAIN session_data \ {sid} |-> session_data[k]]]

\* The finally block of handle_client.
finally(ws) ==
    IF Truthy(session_id[ws]) THEN unregister(ws, session_id[ws])
    ELSE [conns |-> active_connections, data |-> session_data]

\* n is the number of the message among those received so far.
NoReq == [kind |-> "none", n |-> 0, failed |-> FALSE, peer_open |-> TRUE, replies |-> <<>>]

\* The client goes away; the handler learns of it at its next recv or send.
PeerClose(ws) ==
    /\ pc[ws] # "closed"
    /\ open[ws]
    /\ open' = [open EXCEPT ![ws] = FALSE]
    /\ UNCHANGED <<pc, session_id, active_connections, session_data, inflight,
                   sent, lastReq, nrecv>>
    /\ UNCHANGED rateVars
    /\ UNCHANGED detVars
    /\ UNCHANGED trackVars
    /\ UNCHANGED statsVars

\* Handshake as it would be if handle_client registered the connection before
\* it parsed the initial message.
Handshake_registers_first(ws, m) ==
    /\ pc[ws] = "connecting"
    /\ open[ws]
    /\ IF m.json # "object"
       THEN /\ pc' = [pc EXCEPT ![ws] = "closed"]
            /\ active_connections' = active_connections \cup {ws}
            /\ UNCHANGED <<session_id, session_data, sent>>
       ELSE LET sid == IF m.has_sid THEN m.session_id ELSE "unknown"
                reg == register(ws, sid)
            IN  /\ session_id' = [session_id EXCEPT ![ws] = sid]
                /\ active_connections' = reg.conns
                /\ session_data' = reg.data
                /\ sent' = [sent EXCEPT ![ws] = Append(@, Plain("connected", sid))]
                /\ pc' = [pc EXCEPT ![ws] = "active"]
    /\ UNCHANGED <<open, inflight, lastReq, nrecv>>
    /\ UNCHANGED rateVars
    /\ UNCHANGED detVars
    /\ UNCHANGED trackVars
    /\ UNCHANGED statsVars

\* Lines 127-139: the initial message.
Handshake(ws, m) ==
    /\ pc[ws] = "connecting"
    /\ open[ws]
    /\ IF m.json # "object"
       THEN \* json.loads or .get raises: except Exception, then finally with
            \* session_id still None
            /\ pc' = [pc EXCEPT ![ws] = "closed"]
            /\ UNCHANGED <<session_id, active_connections, session_data, sent>>
       ELSE LET sid == IF m.has_sid THEN m.session_id ELSE "unknown"
                reg == register(ws, sid)
            IN  /\ session_id' = [session_id EXCEPT ![ws] = sid]
                /\ active_connections' = reg.conns
                /\ session_data' = reg.data
                /\ sent' = [sent EXCEPT ![ws] = Append(@, Plain("connected", sid))]
                /\ pc' = [pc EXCEPT ![ws] = "active"]
    /\ UNCHANGED <<open, inflight, lastReq, nrecv>>
    /\ UNCHANGED rateVars
    /\ UNCHANGED detVars
    /\ UNCHANGED trackVars
    /\ UNCHANGED statsVars

\* recv, or the iteration over the websocket, finds the connection closed.
RecvClosed(ws) ==
    /\ pc[ws] \in {"connecting", "active"}
    /\ ~open[ws]
    /\ LET fin == finally(ws)
       IN  /\ active_connections' = fin.conns
           /\ session_data' = fin.data
    /\ pc' = [pc EXCEPT ![ws] = "closed"]
    /\ UNCHANGED <<open, session_id, inflight, sent, lastReq, nrecv>>
    /\ UNCHANGED rateVars
    /\ UNCHANGED detVars
    /\ UNCHANGED trackVars
    /\ UNCHANGED statsVars

\* RecvFrame as it would be if handle_client started process_frame as a task
\* of its own and went on with the next message.
RecvFrame_reentrant(ws, p) ==
    /\ pc[ws] \in {"active", "awaiting"}
    /\ open[ws]
    /\ nrecv < MaxMsgs
    /\ nrecv' = nrecv + 1
    /\ IF PayloadTruthy(p)
       THEN /\ pc' = [pc EXCEPT ![ws] = "awaiting"]
            /\ inflight' = [inflight EXCEPT ![ws] = Append(@, p)]
            /\ lastReq' = [lastReq EXCEPT ![ws] = [kind |-> "pending", n |-> nrecv + 1, failed |-> FALSE, peer_open |-> TRUE, replies |-> <<>>]]
       ELSE /\ lastReq' = [lastReq EXCEPT ![ws] = [kind |-> "frame", n |-> nrecv + 1, failed |-> TRUE, peer_open |-> TRUE, replies |-> <<>>]]
            /\ UNCHANGED <<pc, inflight>>
    /\ UNCHANGED <<open, session_id, active_connections, session_data, sent>>
    /\ UNCHANGED rateVars
    /\ UNCHANGED detVars
    /\ UNCHANGED trackVars
    /\ UNCHANGED statsVars

\* Lines 146-152: a frame message; process_frame suspends at the POST.
RecvFrame(ws, p) ==
    /\ pc[ws] = "active"
    /\ open[ws]
    /\ nrecv < MaxMsgs
    /\ nrecv' = nrecv + 1
    /\ IF PayloadTruthy(p)
       THEN /\ pc' = [pc EXCEPT ![ws] = "awaiting"]
            /\ inflight' = [inflight EXCEPT ![ws] = <<p>>]
            /\ lastReq' = [lastReq EXCEPT ![ws] = [kind |-> "pending", n |-> nrecv + 1, failed |-> FALSE, peer_open |-> TRUE, replies |-> <<>>]]
       ELSE /\ lastReq' = [lastReq EXCEPT ![ws] = [kind |-> "frame", n |-> nrecv + 1, failed |-> TRUE, peer_open |-> TRUE, replies |-> <<>>]]
            /\ UNCHANGED <<pc, inflight>>
    /\ UNCHANGED <<open, session_id, active_connections, session_data, sent>>
    /\ UNCHANGED rateVars
    /\ UNCHANGED detVars
    /\ UNCHANGED trackVars
    /\ UNCHANGED statsVars

\* Lines 74-96 and 155-164: the boundary answers; the result goes back.
BoundaryReturn(ws, o) ==
    /\ pc[ws] = "awaiting"
    /\ LET sid == session_id[ws]
           res == process_frame(o)
           msg == response(sid, res)
           out == IF open[ws] THEN <<msg>> ELSE <<>>
       IN  /\ session_data' =
                 IF o.status = "ok" /\ sid \in DOMAIN session_data
                 THEN [session_data EXCEPT ![sid].frames_processed = @ + 1]
                 ELSE session_data
           /\ sent' = [sent EXCEPT ![ws] = @ \o out]
           /\ lastReq' = [lastReq EXCEPT ![ws] =
                            [kind |-> "frame",
                             n |-> lastReq[ws].n,
                             failed |-> structural(inflight[ws][1]) # "OK" \/ o.status # "ok",
                             peer_open |-> open[ws],
                             replies |-> out]]
    /\ pc' = [pc EXCEPT ![ws] = "active"]
    /\ inflight' = [inflight EXCEPT ![ws] = <<>>]
    /\ UNCHANGED <<open, session_id, active_connections, nrecv>>
    /\ UNCHANGED rateVars
    /\ UNCHANGED detVars
    /\ UNCHANGED trackVars
    /\ UNCHANGED statsVars

\* A ping that is answered only if the session's rate window admits it.
RecvPing_rate_limited(ws) ==
    LET r == check(window(session_id[ws]), now, MAX_FPS_PER_SESSION)
        out == IF r.allowed THEN <<Plain("pong", None)>> ELSE <<>>
    IN  /\ pc[ws] = "active"
        /\ open[ws]
        /\ nrecv < MaxMsgs
        /\ nrecv' = nrecv + 1
        /\ _requests' = setWindow(session_id[ws], r.requests)
        /\ sent' = [sent EXCEPT ![ws] = @ \o out]
        /\ lastReq' = [lastReq EXCEPT ![ws] =
                         [kind |-> "ping", n |-> nrecv + 1, failed |-> FALSE,
                          peer_open |-> TRUE, replies |-> out]]
        /\ UNCHANGED <<pc, open, session_id, active_connections, session_data, inflight>>
        /\ UNCHANGED <<now, limit, admitted, lastCheck, ncalls, lastSession>>
        /\ UNCHANGED detVars
        /\ UNCHANGED trackVars
        /\ UNCHANGED statsVars

\* Lines 166-168: a ping.
RecvPing(ws) ==
    /\ pc[ws] = "active"
    /\ open[ws]
    /\ nrecv < MaxMsgs
    /\ nrecv' = nrecv + 1
    /\ sent' = [sent EXCEPT ![ws] = Append(@, Plain("pong", None))]
    /\ lastReq' = [lastReq EXCEPT ![ws] =
                     [kind |-> "ping", n |-> nrecv + 1, failed |-> FALSE, peer_open |-> TRUE,
                      replies |-> <<Plain("pong", None)>>]]
    /\ UNCHANGED <<pc, open, session_id, active_connections, session_data, inflight>>
    /\ UNCHANGED rateVars
    /\ UNCHANGED detVars
    /\ UNCHANGED trackVars
    /\ UNCHANGED statsVars

\* A loop whose inner try lets the error of a bad message through to the
\* outer except, which ends the handler.
RecvOther_ends_handler(ws) ==
    /\ pc[ws] = "active"
    /\ open[ws]
    /\ nrecv < MaxMsgs
    /\ nrecv' = nrecv + 1
    /\ lastReq' = [lastReq EXCEPT ![ws] = [kind |-> "other", n |-> nrecv + 1, failed |-> FALSE, peer_open |-> TRUE, replies |-> <<>>]]
    /\ LET fin == finally(ws)
       IN  /\ active_connections' = fin.conns
           /\ session_data' = fin.data
    /\ pc' = [pc EXCEPT ![ws] = "closed"]
    /\ UNCHANGED <<open, session_id, inflight, sent>>
    /\ UNCHANGED rateVars
    /\ UNCHANGED detVars
    /\ UNCHANGED trackVars
    /\ UNCHANGED statsVars

\* Lines 144, 170-173: anything else (bad JSON, no dict, another type).
RecvOther(ws) ==
    /\ pc[ws] = "active"
    /\ open[ws]
    /\ nrecv < MaxMsgs
    /\ nrecv' = nrecv + 1
    /\ lastReq' = [lastReq EXCEPT ![ws] = [kind |-> "other", n |-> nrecv + 1, failed |-> FALSE, peer_open |-> TRUE, replies |-> <<>>]]
    /\ UNCHANGED <<pc, open, session_id, active_connections, session_data, inflight, sent>>
    /\ UNCHANGED rateVars
    /\ UNCHANGED detVars
    /\ UNCHANGED trackVars
    /\ UNCHANGED statsVars

\* The stats message of broadcast_stats.
StatsMsg(n) ==
    [type |-> "stats", keys |-> {"type", "active_connections", "timestamp"},
     session_id |-> None, error |-> "", detections |-> <<>>,
     annotated_frame |-> "", timestamp |-> 0, active_connections |-> n]

\* A cycle whose gather lets the first exception through: nobody is counted
\* as reached and the task ends.
BroadcastStats_first_failure_ends ==
    LET failed == {ws \in active_connections : ~open[ws]}
        reached == IF failed = {} THEN active_connections ELSE {}
    IN  /\ broadcasting
        /\ cycles < MaxCycles
        /\ cycles' = cycles + 1
        /\ sent' = [ws \in Conns |->
                       IF ws \in reached
                       THEN Append(sent[ws], StatsMsg(Cardinality(active_connections)))
                       ELSE sent[ws]]
        /\ lastCycle' = [reached |-> reached, failed |-> failed,
                         after_failure |-> lastCycle.after_failure \/ lastCycle.failed # {}]
        /\ broadcasting' = (failed = {})
        /\ UNCHANGED <<pc, open, session_id, active_connections, session_data,
                       inflight, lastReq, nrecv>>
        /\ UNCHANGED rateVars
        /\ UNCHANGED detVars
        /\ UNCHANGED trackVars

\* Lines 100-114: one cycle of broadcast_stats, after its sleep.  The sends
\* are gathered with return_exceptions=True: a send to a connection whose
\* transport is gone raises, and gather hands the exception back as a result.
BroadcastStats ==
    LET failed == {ws \in active_connections : ~open[ws]}
        reached == active_connections \ failed
    IN  /\ broadcasting
        /\ cycles < MaxCycles
        /\ cycles' = cycles + 1
        /\ sent' = [ws \in Conns |->
                       IF ws \in reached
                       THEN Append(sent[ws], StatsMsg(Cardinality(active_connections)))
                       ELSE sent[ws]]
        /\ lastCycle' = [reached |-> reached, failed |-> failed,
                         after_failure |-> lastCycle.after_failure \/ lastCycle.failed # {}]
        /\ broadcasting' = TRUE
        /\ UNCHANGED <<pc, open, session_id, active_connections, session_data,
                       inflight, lastReq, nrecv>>
        /\ UNCHANGED rateVars
        /\ UNCHANGED detVars
        /\ UNCHANGED trackVars

---------------------------------------------------------------------------
\* DetectionValidator.validate_detections
\*
\* Coordinates are whole pixels and confidences whole tenths, and the frame
\* sides are multiples of 20, so the products with 0.05, 0.1, 1.05 and 1.1
\* are whole numbers (and exact in floating point for 640x480).  A value
\* carries its Python type: "num" a number, "str" a numeric string (float()
\* accepts it, isinstance(..., (int, float)) does not), "bad" anything else.

MIN_CONFIDENCE_TENTHS == 3
MIN_BBOX_AREA == 100
MAX_DETECTIONS_PER_FRAME == 100
MAX_BBOX_SIZE_RATIO_PCT == 95
TOLERANCE_PCT == 5
OUTER_PCT == 10

Num(v) == [tag |-> "num", v |-> v]
Str(v) == [tag |-> "str", v |-> v]
Bad == [tag |-> "bad", v |-> 0]

REQUIRED_FIELDS == {"class_id", "class_name", "track_id"}

\* A dict with the keys in fields (besides confidence and bbox, present when
\* their tag says so); track_id tells the detections of a batch apart.
Det(conf, bbox, fields, track_id) ==
    [isdict |-> TRUE, confidence |-> conf, bbox |-> bbox, fields |-> fields,
     track_id |-> track_id]

\* A bbox value: a list of coordinates, or something that is no list.
List(coords) == [islist |-> TRUE, coords |-> coords]
NotAList == [islist |-> FALSE, coords |-> <<>>]

NotADict == [isdict |-> FALSE, confidence |-> Bad, bbox |-> NotAList, fields |-> {},
             track_id |-> 0]

Box(x1, y1, x2, y2) == List(<<Num(x1), Num(y1), Num(x2), Num(y2)>>)

Warn(i, kind, n) == [idx |-> i, kind |-> kind, n |-> n]

Max(a, b) == IF a >= b THEN a ELSE b
Min(a, b) == IF a <= b THEN a ELSE b

\* Line 284: the bbox leaves the frame by more than the 5% tolerance.
beyond_tolerance(x1, y1, x2, y2, h, w) ==
    \/ 100 * x1 < -(w * TOLERANCE_PCT)
    \/ 100 * y1 < -(h * TOLERANCE_PCT)
    \/ 100 * x2 > w * (100 + TOLERANCE_PCT)
    \/ 100 * y2 > h * (100 + TOLERANCE_PCT)

\* Line 286: the bbox leaves the frame by more than 10%.
beyond_outer(x1, y1, x2, y2, h, w) ==
    \/ 100 * x1 < -(w * OUTER_PCT)
    \/ 100 * y1 < -(h * OUTER_PCT)
    \/ 100 * x2 > w * (100 + OUTER_PCT)
    \/ 100 * y2 > h * (100 + OUTER_PCT)

\* Lines 291-294: max(0, min(v, side)).
clamp(v, side) == Max(0, Min(v, side))

\* finish as it would be if the validated detection kept the bbox it came
\* with (line 319 left out).
finish_keeps_bbox(i, det, x1, y1, x2, y2, h, w, ws) ==
    LET area == (x2 - x1) * (y2 - y1)
        frame_area == w * h
        big == frame_area > 0 /\ 100 * area > MAX_BBOX_SIZE_RATIO_PCT * frame_area
        ws2 == IF big THEN Append(ws, Warn(i, "too_large", 0)) ELSE ws
    IN  IF area < MIN_BBOX_AREA
        THEN [keep |-> FALSE, det |-> det, warnings |-> ws]
        ELSE IF ~(REQUIRED_FIELDS \subseteq det.fields)
        THEN [keep |-> FALSE, det |-> det,
              warnings |-> Append(ws2, Warn(i, "missing_fields", 0))]
        ELSE [keep |-> TRUE,
              det |-> [det EXCEPT !.confidence = Num(det.confidence.v)],
              warnings |-> ws2]

\* Lines 297-321, for the bbox as step 4 left it; ws are the warnings so far.
finish(i, det, x1, y1, x2, y2, h, w, ws) ==
    LET area == (x2 - x1) * (y2 - y1)
        frame_area == w * h
        big == frame_area > 0 /\ 100 * area > MAX_BBOX_SIZE_RATIO_PCT * frame_area
        ws2 == IF big THEN Append(ws, Warn(i, "too_large", 0)) ELSE ws
    IN  IF area < MIN_BBOX_AREA
        THEN [keep |-> FALSE, det |-> det, warnings |-> ws]
        ELSE IF ~(REQUIRED_FIELDS \subseteq det.fields)
        THEN [keep |-> FALSE, det |-> det,
              warnings |-> Append(ws2, Warn(i, "missing_fields", 0))]
        ELSE [keep |-> TRUE,
              det |-> [det EXCEPT !.bbox = Box(x1, y1, x2, y2),
                                  !.confidence = Num(det.confidence.v)],
              warnings |-> ws2]

\* bounds as it would be if the rejection of line 287 were reported like the
\* other rejections of a bbox.
bounds_reports_rejection(i, det, x1, y1, x2, y2, h, w) ==
    IF beyond_tolerance(x1, y1, x2, y2, h, w)
    THEN IF beyond_outer(x1, y1, x2, y2, h, w)
         THEN [keep |-> FALSE, det |-> det, warnings |-> <<Warn(i, "out_of_bounds", 0)>>]
         ELSE finish(i, det, clamp(x1, w), clamp(y1, h), clamp(x2, w), clamp(y2, h),
                     h, w, <<Warn(i, "clamped", 0)>>)
    ELSE finish(i, det, x1, y1, x2, y2, h, w, <<>>)

\* Lines 282-295: the bounds check, then the rest.
bounds(i, det, x1, y1, x2, y2, h, w) ==
    IF beyond_tolerance(x1, y1, x2, y2, h, w)
    THEN IF beyond_outer(x1, y1, x2, y2, h, w)
         THEN [keep |-> FALSE, det |-> det, warnings |-> <<>>]
         ELSE finish(i, det, clamp(x1, w), clamp(y1, h), clamp(x2, w), clamp(y2, h),
                     h, w, <<Warn(i, "clamped", 0)>>)
    ELSE finish(i, det, x1, y1, x2, y2, h, w, <<>>)

\* validate_one as it would be if line 255 appended a warning as line 251 does.
validate_one_warns_low_confidence(i, det, h, w) ==
    LET drop(kind) == [keep |-> FALSE, det |-> det, warnings |-> <<Warn(i, kind, 0)>>]
        c == det.confidence
        b == det.bbox.coords
    IN  IF ~det.isdict THEN drop("not_dict")
        ELSE IF c.tag \in {"str", "bad"} THEN drop("bad_confidence")
        ELSE IF c.tag = "missing" \/ c.v < MIN_CONFIDENCE_TENTHS
        THEN drop("low_confidence")
        ELSE IF ~det.bbox.islist THEN drop("bbox_not_list")
        ELSE IF Len(b) # 4 THEN drop("bbox_length")
        ELSE IF \E k \in 1..4 : b[k].tag = "bad" THEN drop("bbox_coords")
        ELSE IF b[1].v >= b[3].v \/ b[2].v >= b[4].v THEN drop("inverted")
        ELSE bounds(i, det, b[1].v, b[2].v, b[3].v, b[4].v, h, w)

\* Lines 244-321: one turn of the loop, for detection number i (from 0).
validate_one(i, det, h, w) ==
    LET drop(kind) == [keep |-> FALSE, det |-> det, warnings |-> <<Warn(i, kind, 0)>>]
        silent == [keep |-> FALSE, det |-> det, warnings |-> <<>>]
        c == det.confidence
        b == det.bbox.coords
    IN  IF ~det.isdict THEN drop("not_dict")
        ELSE IF c.tag \in {"str", "bad"} THEN drop("bad_confidence")
        \* a missing confidence reads 0.0
        ELSE IF c.tag = "missing" \/ c.v < MIN_CONFIDENCE_TENTHS THEN silent
        \* a missing bbox reads []
        ELSE IF ~det.bbox.islist THEN drop("bbox_not_list")
        ELSE IF Len(b) # 4 THEN drop("bbox_length")
        ELSE IF \E k \in 1..4 : b[k].tag = "bad" THEN drop("bbox_coords")
        ELSE IF b[1].v >= b[3].v \/ b[2].v >= b[4].v THEN drop("inverted")
        ELSE bounds(i, det, b[1].v, b[2].v, b[3].v, b[4].v, h, w)

\* The for loop of lines 243-321 over the detections numbered lo to hi - 1.
\* A turn of the loop only appends to valid_detections and warnings, so the
\* loop over a range is the loop over its first half followed by the loop
\* over its second half.  valid holds the validated detections, src the
\* number each had in the batch.
RECURSIVE validate_loop(_, _, _, _, _)
validate_loop(dets, h, w, lo, hi) ==
    IF hi <= lo THEN [valid |-> <<>>, src |-> <<>>, warnings |-> <<>>]
    ELSE IF hi = lo + 1
    THEN LET r == validate_one(lo, dets[lo + 1], h, w)
         IN  [valid |-> IF r.keep THEN <<r.det>> ELSE <<>>,
              src |-> IF r.keep THEN <<lo>> ELSE <<>>,
              warnings |-> r.warnings]
    ELSE LET mid == (lo + hi) \div 2
             a == validate_loop(dets, h, w, lo, mid)
             b == validate_loop(dets, h, w, mid, hi)
         IN  [valid |-> a.valid \o b.valid, src |-> a.src \o b.src,
              warnings |-> a.warnings \o b.warnings]

\* The positions of cs in the order list.sort(key=confidence, reverse=True)
\* puts them: by confidence from the highest down, equal ones in their order.
RECURSIVE sort_order(_, _)
sort_order(cs, left) ==
    IF left = {} THEN <<>>
    ELSE LET top == CHOOSE k \in left : \A j \in left : cs[j] <= cs[k]
             same == SelectSeq([k \in 1..Len(cs) |-> k],
                               LAMBDA k : k \in left /\ cs[k] = cs[top])
         IN  same \o sort_order(cs, {k \in left : cs[k] # cs[top]})

\* cap as it would be without the sort of line 326.
cap_unsorted(acc) ==
    LET n == Len(acc.valid)
    IN  IF n > MAX_DETECTIONS_PER_FRAME
        THEN [valid |-> SubSeq(acc.valid, 1, MAX_DETECTIONS_PER_FRAME),
              src |-> SubSeq(acc.src, 1, MAX_DETECTIONS_PER_FRAME),
              warnings |-> Append(acc.warnings,
                                  Warn(-1, "cap", n - MAX_DETECTIONS_PER_FRAME)),
              passed |-> n]
        ELSE [valid |-> acc.valid, src |-> acc.src, warnings |-> acc.warnings,
              passed |-> n]

\* Lines 323-329: the cap on the number of detections.
cap(acc) ==
    LET n == Len(acc.valid)
        order == sort_order([k \in 1..n |-> acc.valid[k].confidence.v], 1..n)
    IN  IF n > MAX_DETECTIONS_PER_FRAME
        THEN [valid |-> [k \in 1..MAX_DETECTIONS_PER_FRAME |-> acc.valid[order[k]]],
              src |-> [k \in 1..MAX_DETECTIONS_PER_FRAME |-> acc.src[order[k]]],
              warnings |-> Append(acc.warnings,
                                  Warn(-1, "cap", n - MAX_DETECTIONS_PER_FRAME)),
              passed |-> n]
        ELSE [valid |-> acc.valid, src |-> acc.src, warnings |-> acc.warnings,
              passed |-> n]

Nothing == [valid |-> <<>>, src |-> <<>>, warnings |-> <<>>, passed |-> 0]

\* validate_detections(detections, frame_shape)
validate_detections(dets, shape) ==
    IF dets = <<>> THEN Nothing
    ELSE IF Len(shape) # 2
    THEN [Nothing EXCEPT !.warnings = <<Warn(-1, "frame_shape", 0)>>]
    ELSE cap(validate_loop(dets, shape[1], shape[2], 0, Len(dets)))

---------------------------------------------------------------------------
\* YOLOTracker
\*
\* A bounding box is <<x1, y1, x2, y2>> in whole pixels with x1 + x2 and
\* y1 + y2 even, so that its centre is a whole pixel.  Distances are compared
\* by their squares: sqrt(d) < 50 exactly when d < 50 * 50.  A session's
\* tracks are a dict; the model keeps them as the sequence of its items in
\* iteration order, which is the order the keys were first inserted in.

MATCH_DISTANCE == 50
MAX_HISTORY == 30

TrackSessions == {"abc-1", "unknown"}

center(bbox) == <<(bbox[1] + bbox[3]) \div 2, (bbox[2] + bbox[4]) \div 2>>

\* The square of np.sqrt((center_x - last_pos[0])**2 + (center_y - last_pos[1])**2).
distance2(c, last_pos) ==
    (c[1] - last_pos[1]) * (c[1] - last_pos[1]) + (c[2] - last_pos[2]) * (c[2] - last_pos[2])

\* self.trackers[session_id], which line 102 creates empty when it is missing.
tracksOf(trks, session) == IF session \in DOMAIN trks THEN trks[session] ELSE <<>>

\* The loop of lines 111-115 from item i on; min_distance is <<>> for
\* float('inf') and matched_id is <<>> for None.
RECURSIVE nearest(_, _, _, _, _)
nearest(tracks, i, c, min_distance, matched_id) ==
    IF i > Len(tracks) THEN matched_id
    ELSE LET distance == distance2(c, tracks[i].last_pos)
         IN  IF /\ (min_distance = <<>> \/ distance < min_distance[1])
                /\ distance < MATCH_DISTANCE * MATCH_DISTANCE
             THEN nearest(tracks, i + 1, c, <<distance>>, <<tracks[i].track_id>>)
             ELSE nearest(tracks, i + 1, c, min_distance, matched_id)

\* A put that leaves the position of an existing key as it was.
put_keeps_last_pos(tracks, track_id, c) ==
    IF \E i \in DOMAIN tracks : tracks[i].track_id = track_id
    THEN tracks
    ELSE Append(tracks, [track_id |-> track_id, last_pos |-> c])

\* self.trackers[session_id][matched_id] = (center_x, center_y): an existing
\* key keeps its place, a new key goes last.
put(tracks, track_id, c) ==
    IF \E i \in DOMAIN tracks : tracks[i].track_id = track_id
    THEN [i \in DOMAIN tracks |->
             IF tracks[i].track_id = track_id
             THEN [track_id |-> track_id, last_pos |-> c]
             ELSE tracks[i]]
    ELSE Append(tracks, [track_id |-> track_id, last_pos |-> c])

\* An allocation that numbers a new track by the tracks its session has.
_assign_track_id_per_session(trks, counter, session, bbox) ==
    LET tracks == tracksOf(trks, session)
        c == center(bbox)
        found == nearest(tracks, 1, c, <<>>, <<>>)
        matched_id == IF found = <<>> THEN Len(tracks) ELSE found[1]
    IN  [trackers |-> [k \in DOMAIN trks \cup {session} |->
                          IF k = session THEN put(tracks, matched_id, c) ELSE trks[k]],
         track_id_counter |-> IF found = <<>> THEN Len(tracks) + 1 ELSE counter,
         fresh |-> found = <<>>,
         track_id |-> matched_id]

\* YOLOTracker._assign_track_id on the tracker's maps and counter.
_assign_track_id(trks, counter, session, bbox) ==
    LET tracks == tracksOf(trks, session)
        c == center(bbox)
        found == nearest(tracks, 1, c, <<>>, <<>>)
        matched_id == IF found = <<>> THEN counter ELSE found[1]
    IN  [trackers |-> [k \in DOMAIN trks \cup {session} |->
                          IF k = session THEN put(tracks, matched_id, c) ELSE trks[k]],
         track_id_counter |-> IF found = <<>> THEN counter + 1 ELSE counter,
         fresh |-> found = <<>>,
         track_id |-> matched_id]

\* A history that drops the centroid just appended instead of its first one.
remember_drops_newest(history, track_id, c) ==
    LET old == IF track_id \in DOMAIN history THEN history[track_id] ELSE <<>>
        kept == IF Len(old) + 1 > MAX_HISTORY THEN old ELSE Append(old, c)
    IN  [k \in DOMAIN history \cup {track_id} |-> IF k = track_id THEN kept ELSE history[k]]

\* Lines 88-91: the centroid is appended to the track's history, which then
\* drops its first element if it is longer than 30.
remember(history, track_id, c) ==
    LET grown == Append(IF track_id \in DOMAIN history THEN history[track_id] ELSE <<>>, c)
        kept == IF Len(grown) > MAX_HISTORY THEN Tail(grown) ELSE grown
    IN  [k \in DOMAIN history \cup {track_id} |-> IF k = track_id THEN kept ELSE history[k]]

\* The same append on the history variable, which never drops anything.
record(log, track_id, c) ==
    [k \in DOMAIN log \cup {track_id} |->
        IF k = track_id
        THEN Append(IF track_id \in DOMAIN log THEN log[track_id] ELSE <<>>, c)
        ELSE log[k]]

\* The loop of detect_and_track over the boxes of one frame, from box i on.
RECURSIVE detect_and_track(_, _, _, _)
detect_and_track(boxes, i, session, st) ==
    IF i > Len(boxes) THEN st
    ELSE LET a == _assign_track_id(st.trackers, st.track_id_counter, session, boxes[i])
             c == center(boxes[i])
         IN  detect_and_track(boxes, i + 1, session,
                 [trackers |-> a.trackers,
                  track_id_counter |-> a.track_id_counter,
                  track_history |-> remember(st.track_history, a.track_id, c),
                  assigned |-> Append(st.assigned,
                                  [session |-> session, bbox |-> boxes[i],
                                   tracks |-> tracksOf(st.trackers, session),
                                   counter |-> st.track_id_counter,
                                   track_id |-> a.track_id]),
                  allocated |-> IF a.fresh THEN Append(st.allocated, a.track_id)
                                ELSE st.allocated,
                  arrivals |-> record(st.arrivals, a.track_id, c)])

\* One call of YOLOTracker.detect_and_track: the boxes the detector found in
\* the frame, in the order it lists them.
DetectAndTrack(session, boxes) ==
    LET st == detect_and_track(boxes, 1, session,
                  [trackers |-> trackers, track_id_counter |-> track_id_counter,
                   track_history |-> track_history, assigned |-> <<>>,
                   allocated |-> allocated, arrivals |-> arrivals])
    IN  /\ trackers' = st.trackers
        /\ track_id_counter' = st.track_id_counter
        /\ track_history' = st.track_history
        /\ assigned' = st.assigned
        /\ allocated' = st.allocated
        /\ arrivals' = st.arrivals
        /\ nframes' = [nframes EXCEPT ![session] = @ + 1]
        /\ UNCHANGED rateVars
        /\ UNCHANGED connVars
        /\ UNCHANGED detVars
        /\ UNCHANGED statsVars

---------------------------------------------------------------------------
InitRate ==
    /\ now = 0
    /\ _requests = [s \in {} |-> <<>>]
    /\ admitted = [s \in RateSessions |-> <<>>]
    /\ lastCheck = NoCheck
    /\ ncalls = 0
    /\ lastSession = NoSession

InitDet ==
    /\ detections = <<>>
    /\ frame_shape = <<480, 640>>
    /\ stage = "input"
    /\ result = Nothing
    /\ again = Nothing

InitTrack ==
    /\ trackers = [s \in {} |-> <<>>]
    /\ track_id_counter = 0
    /\ track_history = [k \in {} |-> <<>>]
    /\ assigned = <<>>
    /\ allocated = <<>>
    /\ arrivals = [k \in {} |-> <<>>]
    /\ nframes = [s \in TrackSessions |-> 0]

InitStats ==
    /\ broadcasting = TRUE
    /\ cycles = 0
    /\ lastCycle = [reached |-> {}, failed |-> {}, after_failure |-> FALSE]

InitConn ==
    /\ pc = [ws \in Conns |-> "connecting"]
    /\ open = [ws \in Conns |-> TRUE]
    /\ session_id = [ws \in Conns |-> None]
    /\ active_connections = {}
    /\ session_data = [k \in {} |-> 0]
    /\ inflight = [ws \in Conns |-> <<>>]
    /\ sent = [ws \in Conns |-> <<>>]
    /\ lastReq = [ws \in Conns |-> NoReq]
    /\ nrecv = 0

Init ==
    /\ InitRate
    /\ limit = MAX_FPS_PER_SESSION
    /\ InitConn
    /\ InitDet
    /\ InitTrack
    /\ InitStats

\* The server, with the guardrail calls of the same process.
Next ==
    \/ \E ws \in Conns : PeerClose(ws)
    \/ \E ws \in Conns, m \in HandshakeMsgs : Handshake(ws, m)
    \/ \E ws \in Conns : RecvClosed(ws)
    \/ \E ws \in Conns, p \in FrameDataSamples : RecvFrame(ws, p)
    \/ \E ws \in Conns, o \in Outcomes : BoundaryReturn(ws, o)
    \/ \E ws \in Conns : RecvPing(ws)
    \/ \E ws \in Conns : RecvOther(ws)
    \/ \E s \in RateSessions, p \in FrameDataSamples :
           ncalls < MaxCalls /\ ValidateFrameData(s, p)

Spec == Init /\ [][Next]_vars

\* The rate limiter alone, under a limit fixed at the start.
InitRateOnly ==
    /\ InitRate
    /\ limit \in 1..MaxLimit
    /\ InitConn
    /\ InitDet
    /\ InitTrack
    /\ InitStats

NextRate ==
    \/ Tick
    \/ \E s \in RateSessions : Check(s)
    \/ \E s \in RateSessions : ResetSession(s)

SpecRate == InitRateOnly /\ [][NextRate]_vars

\* The server while session "abc-1" has had 30 frames admitted by
\* validate_frame_data within the running second.
InitLoaded ==
    /\ now = 0
    /\ _requests = [s \in {"abc-1"} |-> [k \in 1..MAX_FPS_PER_SESSION |-> 0]]
    /\ admitted = [s \in RateSessions |->
                      IF s = "abc-1" THEN [k \in 1..MAX_FPS_PER_SESSION |-> 0] ELSE <<>>]
    /\ lastCheck = [op |-> "validate", session |-> "abc-1", payload |-> GoodFrame,
                    allowed |-> TRUE, error |-> "OK",
                    frame |-> <<[h |-> GoodFrame.h, w |-> GoodFrame.w, ch |-> GoodFrame.ch]>>,
                    at |-> 0]
    /\ ncalls = 0
    /\ lastSession = NoSession
    /\ limit = MAX_FPS_PER_SESSION
    /\ InitConn
    /\ InitDet
    /\ InitTrack
    /\ InitStats

NextServer ==
    \/ \E ws \in Conns : PeerClose(ws)
    \/ \E ws \in Conns, m \in HandshakeMsgs : Handshake(ws, m)
    \/ \E ws \in Conns : RecvClosed(ws)
    \/ \E ws \in Conns, p \in FrameDataSamples : RecvFrame(ws, p)
    \/ \E ws \in Conns, o \in Outcomes : BoundaryReturn(ws, o)
    \/ \E ws \in Conns : RecvPing(ws)
    \/ \E ws \in Conns : RecvOther(ws)

SpecLoaded == InitLoaded /\ [][NextServer]_vars

\* The server alone, from its start.
SpecServer == Init /\ [][NextServer]_vars

\* validate_frame_data alone, on a session whose list holds no, one, 29 or 30
\* admissions of the running second.
WindowSamples ==
    { [k \in 1..n |-> 0] : n \in {0, 1, MAX_FPS_PER_SESSION - 1, MAX_FPS_PER_SESSION} }

InitFrame ==
    /\ now = 0
    /\ \E w \in WindowSamples :
           /\ _requests = IF w = <<>> THEN [s \in {} |-> <<>>] ELSE [s \in {"abc-1"} |-> w]
           /\ admitted = [s \in RateSessions |-> IF s = "abc-1" THEN w ELSE <<>>]
    /\ lastCheck = NoCheck
    /\ ncalls = 0
    /\ lastSession = NoSession
    /\ limit = MAX_FPS_PER_SESSION
    /\ InitConn
    /\ InitDet
    /\ InitTrack
    /\ InitStats

NextFrame ==
    \/ Tick
    \/ \E s \in RateSessions \cup {Unhashable}, p \in PayloadSamples :
           ncalls < MaxCalls /\ ValidateFrameData(s, p)

SpecFrame == InitFrame /\ [][NextFrame]_vars

\* One session that sends good frames as fast as it likes.
NextBurst ==
    \/ now < BurstTime /\ Tick
    \/ ncalls < MaxBurst /\ ValidateFrameData("abc-1", GoodFrame)

SpecBurst == Init /\ [][NextBurst]_vars

\* The broadcast task next to connections that come and go.
NextStats ==
    \/ \E ws \in Conns : PeerClose(ws)
    \/ \E ws \in Conns, m \in HandshakeMsgs : Handshake(ws, m)
    \/ \E ws \in Conns : RecvClosed(ws)
    \/ BroadcastStats

SpecStats == Init /\ [][NextStats]_vars

---------------------------------------------------------------------------
\* The batches validate_detections is run on.

MaxBatch == 2
MaxOver == 2

FULL == REQUIRED_FIELDS

\* Boxes around the edges of the tolerance bands of a 640x480 frame.
BoxSamples ==
    { Box(100, 100, 300, 200),
      Box(-10, 100, 300, 200), Box(-32, 100, 300, 200), Box(-33, 100, 300, 200),
      Box(-64, 100, 300, 200), Box(-65, 100, 300, 200),
      Box(100, 100, 672, 200), Box(100, 100, 673, 200),
      Box(100, 100, 704, 200), Box(100, 100, 705, 200),
      Box(100, -24, 300, 200), Box(100, -25, 300, 200),
      Box(100, -48, 300, 200), Box(100, -49, 300, 200),
      Box(100, 100, 300, 504), Box(100, 100, 300, 505),
      Box(100, 100, 300, 528), Box(100, 100, 300, 529),
      Box(300, 100, 100, 200), Box(100, 100, 100, 200), Box(100, 200, 300, 100),
      Box(650, 100, 700, 200), Box(-40, 100, -35, 200),
      Box(100, 100, 105, 110), Box(100, 100, 110, 110),
      Box(0, 0, 640, 480), Box(-32, -24, 672, 504), Box(-33, -25, 673, 505),
      Box(-900, 100, 300, 200), Box(100, 100, 300, 2000) }

DetSamples ==
    { Det(Num(9), b, FULL, 1) : b \in BoxSamples }
    \cup { Det(c, Box(100, 100, 300, 200), FULL, 2) :
             c \in {Num(2), Num(3), Num(5), Num(10), Str(9), Bad,
                    [tag |-> "missing", v |-> 0]} }
    \cup { Det(Num(5), Box(100, 100, 300, 200), f, 3) :
             f \in {{"class_id", "class_name"}, {}} }
    \cup { Det(Num(5), Box(0, 0, 640, 480), {"track_id"}, 3),
           Det(Num(5), Box(100, 100, 705, 200), {}, 3),
           Det(Num(5), List(<<Str(100), Num(100), Str(673), Num(200)>>), FULL, 4),
           Det(Num(5), List(<<Num(100), Bad, Num(300), Num(200)>>), FULL, 4),
           Det(Num(5), List(<<Num(100), Num(100), Num(300)>>), FULL, 4),
           Det(Num(5), List(<<>>), FULL, 4),
           Det(Num(5), NotAList, FULL, 4),
           Det(Num(2), Box(100, 100, 705, 200), FULL, 5),
           NotADict }

SmallBatches ==
    UNION { [1..n -> DetSamples] : n \in 0..MaxBatch }

\* n detections that pass every check, numbered from 100 on, with the
\* confidences of the pattern.
Filler(n, pattern) ==
    [k \in 1..n |->
        Det(Num(IF pattern = "flat" THEN 5
                ELSE IF k % 3 = 0 THEN 3 ELSE IF k % 3 = 1 THEN 9 ELSE 5),
            Box(100, 100, 300, 200), FULL, 100 + k)]

\* What stands before and after the filler in a long batch.
Ends ==
    { <<>>,
      <<Det(Num(9), Box(100, 100, 300, 200), FULL, 1)>>,
      <<Det(Num(5), Box(-33, 100, 300, 200), FULL, 2)>>,
      <<Det(Num(3), Box(100, 100, 300, 200), FULL, 3)>>,
      <<Det(Num(2), Box(100, 100, 300, 200), FULL, 4)>>,
      <<Det(Num(5), Box(100, 100, 705, 200), FULL, 5)>> }

LongBatches ==
    { a \o Filler(MAX_DETECTIONS_PER_FRAME - 2 + k, pattern) \o b :
        a \in Ends, b \in Ends, k \in 0..(2 + MaxOver), pattern \in {"flat", "mixed"} }

ShapeSamples == {<<480, 640>>, <<480, 640, 3>>}

\* The filter is handed a batch.
Sanitize ==
    /\ stage = "input"
    /\ stage' = "validated"
    /\ result' = validate_detections(detections, frame_shape)
    /\ UNCHANGED <<detections, frame_shape, again>>
    /\ UNCHANGED rateVars
    /\ UNCHANGED connVars
    /\ UNCHANGED trackVars
    /\ UNCHANGED statsVars

\* The filter is handed what it returned, with the same frame shape.
Resanitize ==
    /\ stage = "validated"
    /\ stage' = "revalidated"
    /\ again' = validate_detections(result.valid, frame_shape)
    /\ UNCHANGED <<detections, frame_shape, result>>
    /\ UNCHANGED rateVars
    /\ UNCHANGED connVars
    /\ UNCHANGED trackVars
    /\ UNCHANGED statsVars

InitBatches ==
    /\ InitRate
    /\ limit = MAX_FPS_PER_SESSION
    /\ InitConn
    /\ detections \in SmallBatches \cup LongBatches
    /\ frame_shape \in ShapeSamples
    /\ stage = "input"
    /\ result = Nothing
    /\ again = Nothing
    /\ InitTrack
    /\ InitStats

NextDet == Sanitize \/ Resanitize

SpecDet == InitBatches /\ [][NextDet]_vars

---------------------------------------------------------------------------
\* The frames detect_and_track is run on.

MaxFrames == 2
MaxSeen == 4
MaxWalk == 32

\* A box of 20 by 20 pixels around (cx, cy).
BoxAt(cx, cy) == <<cx - 10, cy - 10, cx + 10, cy + 10>>

\* Three centres in a row, 30 pixels from one to the next, and one exactly
\* 50 pixels from the last of them.
TrackBoxes == { BoxAt(100, 100), BoxAt(130, 100), BoxAt(160, 100), BoxAt(160, 150) }

\* The frames of at most n boxes.
Frames(n) == UNION { [1..k -> TrackBoxes] : k \in 0..n }

TotalFrames == nframes["abc-1"] + nframes["unknown"]

\* The boxes the tracker has seen so far, over the track ids below n.
RECURSIVE Seen(_)
Seen(n) == IF n = 0 THEN 0 ELSE Len(arrivals[n - 1]) + Seen(n - 1)

\* The tracker alone: any session's frame, any boxes.
NextTrack ==
    \E session \in TrackSessions, boxes \in Frames(MaxSeen - Seen(track_id_counter)) :
        /\ TotalFrames < MaxFrames
        /\ DetectAndTrack(session, boxes)

SpecTrack == Init /\ [][NextTrack]_vars

\* An object that moves 10 pixels to the right from one frame of its session
\* to the next.
Walk(session, k) == BoxAt(100 + 10 * k, IF session = "abc-1" THEN 100 ELSE 300)

NextWalk ==
    \E session \in TrackSessions :
        nframes[session] < MaxWalk /\ DetectAndTrack(session, <<Walk(session, nframes[session])>>)

SpecWalk == Init /\ [][NextWalk]_vars

---------------------------------------------------------------------------
\* Claims about the rate limiter and the connection lifecycle.

\* The admissions of session s with a timestamp in the closed window [t - 1s, t].
AdmittedIn(s, t) ==
    {i \in DOMAIN admitted[s] : t - TicksPerSecond <= admitted[s][i] /\ admitted[s][i] <= t}

\* C1: for every session and every trailing window of one second, both ends
\* included, the number of calls check admitted with a timestamp in the
\* window is at most the limit.
C1_SlidingWindow ==
    \A s \in RateSessions : \A t \in 0..MaxTime : Cardinality(AdmittedIn(s, t)) <= limit

\* C2: a frame is posted to the inference boundary only if the frame passes
\* the structural checks of FrameValidator.
C2_BoundaryOnlyAfterValidation ==
    \A ws \in Conns : pc[ws] = "awaiting" => structural(inflight[ws][1]) = "OK"

\* C3: a frame message whose processing fails is answered, the connection
\* being open, by exactly one detection_result with no detections and an
\* error field, and the connection stays in its loop.
C3_FailedFrameGetsErrorResult ==
    \A ws \in Conns :
        (lastReq[ws].kind = "frame" /\ lastReq[ws].failed /\ lastReq[ws].peer_open) =>
            /\ Len(lastReq[ws].replies) = 1
            /\ lastReq[ws].replies[1].type = "detection_result"
            /\ lastReq[ws].replies[1].detections = <<>>
            /\ "error" \in lastReq[ws].replies[1].keys
            /\ pc[ws] \in {"active", "closed"}

\* C4: a connection whose handler has finished is in neither the set of
\* active connections nor the session table, whatever session id the
\* handshake gave.
C4_ClosedIsDeregistered ==
    \A ws \in Conns :
        pc[ws] = "closed" =>
            /\ ws \notin active_connections
            /\ \A k \in DOMAIN session_data : session_data[k].websocket # ws

---------------------------------------------------------------------------
\* Claims about validate_detections.

Sanitized == stage # "input" /\ Len(frame_shape) = 2
FrameH == frame_shape[1]
FrameW == frame_shape[2]
Range(f) == {f[k] : k \in DOMAIN f}
X1(d) == d.bbox.coords[1].v
Y1(d) == d.bbox.coords[2].v
X2(d) == d.bbox.coords[3].v
Y2(d) == d.bbox.coords[4].v

\* A dict with a numeric confidence of at least 0.3 and a bbox of four
\* coordinates float() accepts, x1 < x2 and y1 < y2.
WellFormed(d) ==
    /\ d.isdict
    /\ d.confidence.tag = "num" /\ d.confidence.v >= MIN_CONFIDENCE_TENTHS
    /\ d.bbox.islist /\ Len(d.bbox.coords) = 4
    /\ \A k \in 1..4 : d.bbox.coords[k].tag # "bad"
    /\ X1(d) < X2(d) /\ Y1(d) < Y2(d)

\* Some coordinate lies more than 10% of the frame side outside the frame.
OutsideBand(d) ==
    \/ 10 * X1(d) < -FrameW \/ 10 * Y1(d) < -FrameH
    \/ 10 * X2(d) > 11 * FrameW \/ 10 * Y2(d) > 11 * FrameH

\* Some side leaves the frame by 5% of the frame side or more.
FivePercentOut(d) ==
    \/ 20 * X1(d) <= -FrameW \/ 20 * Y1(d) <= -FrameH
    \/ 20 * X2(d) >= 21 * FrameW \/ 20 * Y2(d) >= 21 * FrameH

\* C6: every detection returned has 0 <= x1 < x2 <= w and 0 <= y1 < y2 <= h.
C6_BBoxWithinFrame ==
    Sanitized =>
        \A k \in DOMAIN result.valid :
            LET d == result.valid[k]
            IN  /\ 0 <= X1(d) /\ X1(d) < X2(d) /\ X2(d) <= FrameW
                /\ 0 <= Y1(d) /\ Y1(d) < Y2(d) /\ Y2(d) <= FrameH

\* C7: an otherwise valid detection (all fields, at least 100 px2 inside the
\* frame) that leaves the frame by 5% of a side or more, and by no more than
\* 10% on any side, is returned with its bbox clamped into the frame, and a
\* clamp warning for it is in the warnings.
C7_FivePercentClamped ==
    (Sanitized /\ result.passed <= MAX_DETECTIONS_PER_FRAME) =>
        \A i \in 0..(Len(detections) - 1) :
            LET d == detections[i + 1]
            IN  (/\ WellFormed(d) /\ REQUIRED_FIELDS \subseteq d.fields
                 /\ FivePercentOut(d) /\ ~OutsideBand(d)
                 /\ (clamp(X2(d), FrameW) - clamp(X1(d), FrameW))
                      * (clamp(Y2(d), FrameH) - clamp(Y1(d), FrameH)) >= MIN_BBOX_AREA)
                =>
                /\ \E k \in DOMAIN result.valid :
                      /\ result.src[k] = i
                      /\ result.valid[k].bbox =
                            Box(clamp(X1(d), FrameW), clamp(Y1(d), FrameH),
                                clamp(X2(d), FrameW), clamp(Y2(d), FrameH))
                /\ \E j \in DOMAIN result.warnings :
                      result.warnings[j].idx = i /\ result.warnings[j].kind = "clamped"

\* The detections of the batch C8 is about.
FarOut == {i \in 0..(Len(detections) - 1) :
              WellFormed(detections[i + 1]) /\ OutsideBand(detections[i + 1])}

\* C8: a detection with confidence >= 0.3 and a well-ordered bbox that has a
\* coordinate more than 10% of the frame side outside the frame is not among
\* the detections returned, and no warning returned is about it.
C8_FarOutDroppedSilently ==
    Sanitized =>
        \A i \in FarOut :
            /\ i \notin Range(result.src)
            /\ \A j \in DOMAIN result.warnings : result.warnings[j].idx # i

C8_Witness ==
    /\ Sanitized
    /\ FarOut # {}
    /\ result.valid # <<>>
    /\ result.warnings # <<>>

\* The detections of the batch that pass the checks of the loop, and what
\* the loop makes of detection i.
Passing == {i \in 0..(Len(detections) - 1) :
               validate_one(i, detections[i + 1], FrameH, FrameW).keep}
Validated(i) == validate_one(i, detections[i + 1], FrameH, FrameW).det
CapWarnings == {j \in DOMAIN result.warnings : result.warnings[j].kind = "cap"}

\* C9: when more than 100 detections pass the checks of the loop, exactly 100
\* are returned: those of highest confidence, earlier ones first among equal
\* confidences, also at the cut, in that order, with one warning that tells
\* how many were removed; when at most 100 pass, all are returned in the
\* order of the batch with no such warning.  Never more than 100.
C9_CapKeepsTopHundred ==
    Sanitized =>
        LET n == Cardinality(Passing)
            m == Len(result.valid)
            conf(k) == result.valid[k].confidence.v
        IN  /\ m <= MAX_DETECTIONS_PER_FRAME
            /\ Len(result.src) = m
            /\ \A k \in 1..m : result.src[k] \in Passing
                                 /\ result.valid[k] = Validated(result.src[k])
            /\ IF n > MAX_DETECTIONS_PER_FRAME
               THEN /\ m = MAX_DETECTIONS_PER_FRAME
                    /\ \A k \in 1..(m - 1) :
                          \/ conf(k) > conf(k + 1)
                          \/ conf(k) = conf(k + 1) /\ result.src[k] < result.src[k + 1]
                    /\ \A i \in Passing \ Range(result.src) : \A k \in 1..m :
                          \/ Validated(i).confidence.v < conf(k)
                          \/ Validated(i).confidence.v = conf(k) /\ i > result.src[k]
                    /\ Cardinality(CapWarnings) = 1
                    /\ \A j \in CapWarnings :
                          result.warnings[j].n = n - MAX_DETECTIONS_PER_FRAME
               ELSE /\ m = n
                    /\ \A k \in 1..(m - 1) : result.src[k] < result.src[k + 1]
                    /\ CapWarnings = {}

\* More than 100 passed, the sort moved a later detection ahead of an earlier
\* one, and a detection was cut that has the confidence of the last one kept.
C9_Witness ==
    /\ Sanitized
    /\ Cardinality(Passing) > MAX_DETECTIONS_PER_FRAME
    /\ \E k \in 1..(Len(result.src) - 1) : result.src[k] > result.src[k + 1]
    /\ \E i \in Passing \ Range(result.src) :
          Validated(i).confidence.v = result.valid[Len(result.valid)].confidence.v

\* C10: run on its own output with the same frame shape, validate_detections
\* returns that output, the same detections in the same order, rejects none
\* and warns of no clamping.
C10_Idempotent ==
    stage = "revalidated" =>
        /\ again.valid = result.valid
        /\ again.passed = Len(result.valid)
        /\ \A j \in DOMAIN again.warnings : again.warnings[j].kind = "too_large"

\* The first run clamped a bbox, coerced a string coordinate or capped the
\* batch, and returned something.
C10_Witness ==
    /\ stage = "revalidated"
    /\ result.valid # <<>>
    /\ \/ \E j \in DOMAIN result.warnings : result.warnings[j].kind = "clamped"
       \/ \E k \in DOMAIN result.valid :
             result.valid[k].bbox # detections[result.src[k] + 1].bbox

---------------------------------------------------------------------------
\* Claims about the tracker.

\* The centre of the box of the k-th _assign_track_id call of the last frame.
CallCenter(k) ==
    <<(assigned[k].bbox[1] + assigned[k].bbox[3]) \div 2,
      (assigned[k].bbox[2] + assigned[k].bbox[4]) \div 2>>

\* The squared distance from that centre to the i-th track the call found.
CallDistance2(k, i) ==
    LET c == CallCenter(k)
        q == assigned[k].tracks[i].last_pos
    IN  (c[1] - q[1]) * (c[1] - q[1]) + (c[2] - q[2]) * (c[2] - q[2])

\* The tracks the call found strictly less than 50 pixels away.
Near(k) == {i \in DOMAIN assigned[k].tracks : CallDistance2(k, i) < 2500}

\* Among them the one at minimum distance, the earliest created on a tie.
Best(k) ==
    CHOOSE i \in Near(k) :
        \A j \in Near(k) : \/ CallDistance2(k, i) < CallDistance2(k, j)
                          \/ (CallDistance2(k, i) = CallDistance2(k, j) /\ i <= j)

\* The session's tracks and the counter as the k-th call left them.
TracksAfter(k) ==
    IF k < Len(assigned) THEN assigned[k + 1].tracks
    ELSE IF assigned[k].session \in DOMAIN trackers THEN trackers[assigned[k].session]
    ELSE <<>>

CounterAfter(k) ==
    IF k < Len(assigned) THEN assigned[k + 1].counter ELSE track_id_counter

IdsOf(tracks) == {tracks[i].track_id : i \in DOMAIN tracks}

PosOf(tracks, id) == (CHOOSE i \in DOMAIN tracks : tracks[i].track_id = id)

LastOf(seq, n) ==
    IF Len(seq) <= n THEN seq ELSE SubSeq(seq, Len(seq) - n + 1, Len(seq))

\* C12: after any sequence of detect_and_track calls the history of every
\* track holds at most 30 centroids, and they are the centroids appended to
\* the track last, in the order they arrived.
C12_HistoryBounded ==
    /\ DOMAIN track_history = DOMAIN arrivals
    /\ \A id \in DOMAIN track_history :
           /\ Len(track_history[id]) <= 30
           /\ track_history[id] = LastOf(arrivals[id], 30)

\* A track that has been appended to more than 30 times, so that its oldest
\* centroid is gone from the history.
C12_Witness ==
    \E id \in DOMAIN track_history :
        /\ Len(arrivals[id]) > 30
        /\ Len(track_history[id]) = 30
        /\ track_history[id][1] = arrivals[id][Len(arrivals[id]) - 29]
        /\ track_history[id][1] # arrivals[id][1]

\* The session's tracks as the last frame found them.
FrameStart == IF assigned = <<>> THEN <<>> ELSE assigned[1].tracks

\* The squared distance from the centre of the k-th box of the last frame to
\* the i-th of those tracks.
StartDistance2(k, i) ==
    LET c == CallCenter(k)
        q == FrameStart[i].last_pos
    IN  (c[1] - q[1]) * (c[1] - q[1]) + (c[2] - q[2]) * (c[2] - q[2])

\* The box is nearest, and less than 50 pixels away, to the i-th of them.
Contends(k, i) ==
    /\ StartDistance2(k, i) < 2500
    /\ \A j \in DOMAIN FrameStart :
           \/ StartDistance2(k, i) < StartDistance2(k, j)
           \/ (StartDistance2(k, i) = StartDistance2(k, j) /\ i <= j)

\* C17: two boxes of one frame that are both nearest, within 50 pixels, to
\* the same track of before the frame never get the same track id: the first
\* takes the track's id and the second gets another.
C17_ContendersGetDistinctIds ==
    \A k1, k2 \in DOMAIN assigned :
        \A i \in DOMAIN FrameStart :
            (k1 < k2 /\ Contends(k1, i) /\ Contends(k2, i))
                => /\ assigned[k1].track_id = FrameStart[i].track_id
                   /\ assigned[k2].track_id # assigned[k1].track_id

\* The track ids in the map of a session.
SessionIds(session) ==
    IF session \in DOMAIN trackers
    THEN {trackers[session][i].track_id : i \in DOMAIN trackers[session]}
    ELSE {}

\* C18: the ids handed out so far are 0, 1, 2, ... in this order, one for each
\* value the counter has had, whatever the frame and the session they were
\* handed out in, so the counter never went down or back to 0 and no id was
\* handed out twice; every id in a session's map is below the counter, and
\* no id is in the maps of two sessions.
C18_IdsGloballyUnique ==
    /\ Len(allocated) = track_id_counter
    /\ \A n \in DOMAIN allocated : allocated[n] = n - 1
    /\ \A session \in TrackSessions :
           /\ \A id \in SessionIds(session) : id < track_id_counter
           /\ Len(tracksOf(trackers, session)) = Cardinality(SessionIds(session))
    /\ \A s1, s2 \in TrackSessions :
           s1 # s2 => SessionIds(s1) \cap SessionIds(s2) = {}

\* Both sessions have tracks, from ids handed out in more than one frame.
C18_Witness ==
    /\ track_id_counter >= 3
    /\ \A session \in TrackSessions : SessionIds(session) # {}
    /\ nframes["abc-1"] + nframes["unknown"] >= 2

---------------------------------------------------------------------------
\* Claims about the messages of a connection.

\* The step is the handling of a ping received on ws.
PingHandled(ws) ==
    /\ nrecv' = nrecv + 1
    /\ lastReq'[ws].n = nrecv'
    /\ lastReq'[ws].kind = "ping"

\* C13: the handling of a ping sends exactly one pong on the connection the
\* ping came on, whatever the rate window of its session holds, and leaves
\* the rate limiter, the validator's history, the session table, the
\* position of every handler, the frames in flight and the tracker as they
\* were.
C13_PingAnsweredFreeOfCharge ==
    [][\A ws \in Conns :
          PingHandled(ws) =>
              /\ Len(sent'[ws]) = Len(sent[ws]) + 1
              /\ SubSeq(sent'[ws], 1, Len(sent[ws])) = sent[ws]
              /\ sent'[ws][Len(sent'[ws])].type = "pong"
              /\ \A other \in Conns \ {ws} : sent'[other] = sent[other]
              /\ UNCHANGED <<_requests, admitted, lastCheck, ncalls>>
              /\ UNCHANGED <<session_data, active_connections, pc, inflight>>
              /\ UNCHANGED trackVars]_vars

\* A ping was answered on a connection whose session had its 30 admissions
\* of the second.
C13_Witness ==
    \E ws \in Conns :
        /\ lastReq[ws].kind = "ping"
        /\ lastReq[ws].n = nrecv
        /\ session_id[ws] \in DOMAIN _requests
        /\ Len(_requests[session_id[ws]]) = 30
        /\ sent[ws] # <<>>
        /\ sent[ws][Len(sent[ws])].type = "pong"

\* C14: in every cycle of broadcast_stats each connection of the active set
\* whose transport is open is sent the stats message, whether or not the send
\* to another connection of the set failed, and the task is still in its
\* loop afterwards.
C14_BroadcastIsolatesFailures ==
    [][cycles' = cycles + 1 =>
          /\ \A ws \in active_connections :
                 open[ws] =>
                     /\ Len(sent'[ws]) = Len(sent[ws]) + 1
                     /\ sent'[ws][Len(sent'[ws])].type = "stats"
                     /\ sent'[ws][Len(sent'[ws])].active_connections
                            = Cardinality(active_connections)
          /\ broadcasting']_vars

\* A cycle that ran after a cycle with a failed send, and in which a send to
\* one connection failed and another connection got the message.
C14_Witness ==
    /\ broadcasting
    /\ cycles >= 2
    /\ lastCycle.after_failure
    /\ lastCycle.failed # {}
    /\ \E ws \in lastCycle.reached :
           /\ sent[ws] # <<>>
           /\ sent[ws][Len(sent[ws])].type = "stats"

\* The keys of the session table whose entry belongs to the connection.
EntriesOf(ws) == {k \in DOMAIN session_data : session_data[k].websocket = ws}

\* C19: every connection that has completed its handshake and has not been
\* closed has exactly one entry of its own in the session table, also while
\* another connection uses the same session identifier and after another
\* connection has closed.
C19_OneEntryPerLiveConnection ==
    \A ws \in Conns :
        pc[ws] \in {"active", "awaiting"} => Cardinality(EntriesOf(ws)) = 1

---------------------------------------------------------------------------
\* Claims about validate_frame_data.

\* The payload is a non-empty string of 100 to 10485760 characters whose
\* part after the last comma is strict base64 for 1 to 10485760 bytes, which
\* decode to an image of 32 to 4096 pixels a side with 3 channels.
Acceptable(p) ==
    /\ p.isstr
    /\ p.len > 0
    /\ 100 <= p.len /\ p.len <= 10485760
    /\ p.b64
    /\ 1 <= p.nbytes /\ p.nbytes <= 10485760
    /\ p.img
    /\ 32 <= p.h /\ p.h <= 4096
    /\ 32 <= p.w /\ p.w <= 4096
    /\ p.ch = 3

\* The admissions of the last call's session that came before the call and
\* were less than a second old when it was made.
PriorAdmissions ==
    LET adm == admitted[lastCheck.session]
        before == IF lastCheck.allowed THEN Len(adm) - 1 ELSE Len(adm)
    IN  {i \in 1..before : lastCheck.at - adm[i] < TicksPerSecond}

\* C15: validate_frame_data accepts a payload exactly when the payload is
\* acceptable in structure, the limits 100, 10 MiB, 32 and 4096 included,
\* and the rate limiter admits the session: it can take the session id and
\* the session has had fewer than 30 admissions within the last second.
C15_AcceptsExactlyTheValid ==
    lastCheck.op = "validate" =>
        (lastCheck.allowed <=>
            (/\ Acceptable(lastCheck.payload)
             /\ lastCheck.session \in RateSessions
             /\ Cardinality(PriorAdmissions) < 30))

\* A payload on the lower limits was accepted, as the 30th of its second.
C15_Witness ==
    /\ lastCheck.op = "validate"
    /\ lastCheck.allowed
    /\ lastCheck.payload.len = 100
    /\ lastCheck.payload.h = 32
    /\ lastCheck.payload.w = 32
    /\ Cardinality(PriorAdmissions) = 29

\* The admissions of the last call's session less than a second old when the
\* call was made, the call's own included, in the order they were made.
LiveAdmissions ==
    SelectSeq(admitted[lastCheck.session],
              LAMBDA t : lastCheck.at - t < TicksPerSecond)

ValidateCalled(s) ==
    /\ ncalls' = ncalls + 1
    /\ lastCheck'.op = "validate"
    /\ lastCheck'.session = s

\* The session's list before the step, without what is a second old or more.
Pruned(s) ==
    SelectSeq(IF s \in DOMAIN _requests THEN _requests[s] ELSE <<>>,
              LAMBDA t : now - t < TicksPerSecond)

\* C20: a call of validate_frame_data with a payload that fails a structural
\* check leaves every session's list as it was; with a payload that passes
\* them it appends one timestamp to the session's list when it accepts and
\* none when it rejects for the rate, and leaves the other sessions' lists
\* as they were.
C20_RateCheckedLast ==
    [][\A s \in RateSessions :
          ValidateCalled(s) =>
              IF ~Acceptable(lastCheck'.payload)
              THEN _requests' = _requests
              ELSE /\ s \in DOMAIN _requests'
                   /\ _requests'[s] = IF lastCheck'.allowed
                                      THEN Append(Pruned(s), now)
                                      ELSE Pruned(s)
                   /\ \A o \in DOMAIN _requests' \ {s} :
                          o \in DOMAIN _requests /\ _requests'[o] = _requests[o]]_vars

\* A payload was rejected by a structural check while the session had one
\* slot of its second left, and the slot is still there.
C20_Witness ==
    /\ lastCheck.op = "validate"
    /\ ~lastCheck.allowed
    /\ ~Acceptable(lastCheck.payload)
    /\ lastCheck.session \in DOMAIN _requests
    /\ Len(_requests[lastCheck.session]) = 29
    /\ lastCheck.at = 0

\* C21: whenever validate_frame_data returns is_valid False the frame it
\* returns is None, also when the rate limiter turns away a frame that was
\* decoded and when the call ends in the catch-all except; whenever it
\* returns is_valid True the frame is an image of 32 to 4096 pixels a side
\* with 3 channels.
C21_NoFrameOnFailure ==
    lastCheck.op = "validate" =>
        IF lastCheck.allowed
        THEN /\ Len(lastCheck.frame) = 1
             /\ 32 <= lastCheck.frame[1].h /\ lastCheck.frame[1].h <= 4096
             /\ 32 <= lastCheck.frame[1].w /\ lastCheck.frame[1].w <= 4096
             /\ lastCheck.frame[1].ch = 3
        ELSE lastCheck.frame = <<>>

\* A frame that decoded to a good image was turned away by the rate limit,
\* and no frame came back.
C21_Witness ==
    /\ lastCheck.op = "validate"
    /\ ~lastCheck.allowed
    /\ lastCheck.error = "rate_limit"
    /\ Acceptable(lastCheck.payload)
    /\ lastCheck.payload.h = 4096
    /\ lastCheck.frame = <<>>

---------------------------------------------------------------------------
\* Claims about the protocol of a connection.

\* The step is the handling of a message received on ws that is no JSON, no
\* JSON object, or of a type other than frame and ping.
OtherHandled(ws) ==
    /\ nrecv' = nrecv + 1
    /\ lastReq'[ws].n = nrecv'
    /\ lastReq'[ws].kind = "other"

\* C22: the handling of a message that is no JSON, no JSON object or of
\* another type than frame and ping sends nothing on any connection, leaves
\* the session table, the active set, the rate limiter and the frames in
\* flight as they were, and leaves the connection active; and a connection
\* that has completed its handshake is closed only once its transport is
\* gone, whatever the messages it received.
C22_BadMessagesIgnored ==
    [][\A ws \in Conns :
          /\ OtherHandled(ws) =>
                 /\ pc[ws] = "active" /\ pc'[ws] = "active"
                 /\ UNCHANGED <<sent, session_data, active_connections, session_id>>
                 /\ UNCHANGED <<pc, inflight>>
                 /\ UNCHANGED <<_requests, admitted, lastCheck, ncalls>>
          /\ (pc[ws] \in {"active", "awaiting"} /\ pc'[ws] = "closed") => ~open[ws]]_vars

\* A connection had a message of this sort handled as the last message of
\* all, is active and registered, and has been sent the acknowledgement only.
C22_Witness ==
    \E ws \in Conns :
        /\ lastReq[ws].kind = "other"
        /\ lastReq[ws].n = nrecv
        /\ nrecv >= 2
        /\ pc[ws] = "active"
        /\ open[ws]
        /\ ws \in active_connections
        /\ Len(sent[ws]) = 1

----------------------------------------------------------------------------
\* Claims about the confidence check of validate_detections.

\* The dicts of the batch whose confidence is a number below 0.3, or missing
\* (read as 0.0), and those whose confidence is no number.
LowConfidence == {i \in 0..(Len(detections) - 1) :
                     /\ detections[i + 1].isdict
                     /\ \/ detections[i + 1].confidence.tag = "missing"
                        \/ /\ detections[i + 1].confidence.tag = "num"
                           /\ detections[i + 1].confidence.v < MIN_CONFIDENCE_TENTHS}
NonNumericConfidence == {i \in 0..(Len(detections) - 1) :
                            /\ detections[i + 1].isdict
                            /\ detections[i + 1].confidence.tag \in {"str", "bad"}}
WarningsAbout(i) == {j \in DOMAIN result.warnings : result.warnings[j].idx = i}

\* C23 as stated: a detection rejected because its confidence is no number or
\* is below 0.3 is not returned and no returned warning is about it.
C23_ConfidenceRejectsSilent ==
    Sanitized =>
        \A i \in LowConfidence \cup NonNumericConfidence :
            /\ i \notin Range(result.src)
            /\ WarningsAbout(i) = {}

\* C23, amended: a detection rejected because its confidence is a number
\* below 0.3, or is missing, is not returned and no returned warning is about
\* it; a detection rejected because its confidence is no number is not
\* returned and exactly one returned warning is about it, the one that
\* reports the invalid confidence.
C23_LowConfidenceSilent ==
    Sanitized =>
        /\ \A i \in LowConfidence :
               /\ i \notin Range(result.src)
               /\ WarningsAbout(i) = {}
        /\ \A i \in NonNumericConfidence :
               /\ i \notin Range(result.src)
               /\ Cardinality(WarningsAbout(i)) = 1
               /\ \A j \in WarningsAbout(i) :
                      result.warnings[j].kind = "bad_confidence"

\* A batch with a detection of low confidence and one of a confidence that is
\* no number has been filtered, and the one warning returned is about the
\* latter.
C23_Witness ==
    /\ Sanitized
    /\ LowConfidence # {}
    /\ NonNumericConfidence # {}
    /\ Len(result.warnings) = 1
    /\ result.warnings[1].idx \in NonNumericConfidence

----------------------------------------------------------------------------
\* The values validate_session_id is run on, and the claim about it.

MaxMarks == 2

IdLengths ==
    0..2 \cup (MAX_SESSION_ID_LENGTH - 2)..(MAX_SESSION_ID_LENGTH + 1)

SessionIdSamples ==
    { Id(a, u, y, x, o) : a \in IdLengths, u \in 0..MaxMarks, y \in 0..MaxMarks,
                          x \in 0..1, o \in 0..1 }
    \cup { NotAString(TRUE), NotAString(FALSE) }

NextSid == \E v \in SessionIdSamples : ValidateSessionId(v)

SpecSid == Init /\ [][NextSid]_vars

\* A string of 1 to 256 characters, all of them in [A-Za-z0-9_-].
InCharset(v) ==
    /\ v.isstr
    /\ 1 <= strlen(v) /\ strlen(v) <= MAX_SESSION_ID_LENGTH
    /\ v.wide = 0 /\ v.other = 0

\* C24: validate_session_id accepts exactly the strings of 1 to 256
\* characters that all belong to [A-Za-z0-9_-], those made of underscores and
\* hyphens only among them, and rejects every other value.
C24_AcceptsExactlyCharset ==
    lastSession.called => (lastSession.is_valid <=> InCharset(lastSession.value))

----------------------------------------------------------------------------
\* Claims about the handshake of handle_client.

\* The connection is in the active set or some entry of the session table
\* names it.
Registered(ws) ==
    \/ ws \in active_connections
    \/ \E k \in DOMAIN session_data : session_data[k].websocket = ws

\* Before its initial message is consumed a connection is not registered, has
\* been sent nothing and has had no message handled; and whatever a connection
\* has been sent begins with the acknowledgement.
HandshakeFirst(ws) ==
    /\ pc[ws] = "connecting" =>
           /\ ~Registered(ws)
           /\ sent[ws] = <<>>
           /\ lastReq[ws] = NoReq
    /\ sent[ws] # <<>> => sent[ws][1].type = "connected"
    /\ Registered(ws) => sent[ws] # <<>>

\* The step that consumes the initial message of a connection whose
\* transport is up either registers the connection, sends it the
\* acknowledgement alone and makes it active, or closes it, unregistered and
\* with nothing sent; the message is not counted among the messages of the
\* loop; a closed connection stays closed and is not registered later.
HandshakeStep(ws) ==
    /\ (pc[ws] = "connecting" /\ pc'[ws] # "connecting" /\ open[ws]) =>
           /\ nrecv' = nrecv
           /\ lastReq'[ws] = NoReq
           /\ \/ /\ pc'[ws] = "active"
                 /\ ws \in active_connections'
                 /\ sent'[ws] = <<Plain("connected", session_id'[ws])>>
              \/ /\ pc'[ws] = "closed"
                 /\ ~Registered(ws)'
                 /\ sent'[ws] = <<>>
    /\ pc[ws] = "closed" =>
           /\ pc'[ws] = "closed"
           /\ ~Registered(ws) => ~Registered(ws)'
           /\ sent'[ws] = sent[ws]

\* C25: until the initial message of a connection is received the connection
\* is not registered and is sent no pong and no detection result; the
\* acknowledgement is the first message the handler sends; the first message
\* received is consumed as the handshake whatever its content; and a
\* connection whose initial message cannot be parsed is closed without ever
\* being registered.
C25_HandshakeComesFirst ==
    /\ [](\A ws \in Conns : HandshakeFirst(ws))
    /\ [][\A ws \in Conns : HandshakeStep(ws)]_vars

\* One connection was closed by its initial message, unregistered and with
\* nothing sent, while another was acknowledged first and then answered a
\* ping.
C25_Witness ==
    \E a, b \in Conns :
        /\ pc[a] = "closed" /\ open[a] /\ sent[a] = <<>> /\ ~Registered(a)
        /\ pc[b] = "active" /\ Registered(b)
        /\ Len(sent[b]) = 2
        /\ sent[b][1].type = "connected" /\ sent[b][2].type = "pong"

----------------------------------------------------------------------------
\* Claims about the suspension of handle_client at the inference boundary.

\* A connection awaits the boundary exactly while a frame of it is in
\* flight, and at most one is.
OneInFlight(ws) ==
    /\ Len(inflight[ws]) <= 1
    /\ pc[ws] = "awaiting" <=> inflight[ws] # <<>>

\* While a awaits the boundary, a message can be handled on every other
\* connection that is active and up: a ping, or a frame.
OthersGoOn(a) ==
    pc[a] = "awaiting" =>
        \A b \in Conns \ {a} :
            (pc[b] = "active" /\ open[b] /\ nrecv < MaxMsgs) =>
                /\ ENABLED RecvPing(b)
                /\ ENABLED RecvFrame(b, GoodFrame)

\* A step taken while ws awaits the boundary either leaves ws awaiting, with
\* the same frame in flight, no message of ws handled and nothing sent to
\* it, or is the return of the boundary call, which handles no new message.
Suspended(ws) ==
    pc[ws] = "awaiting" =>
        \/ /\ pc'[ws] = "awaiting"
           /\ inflight'[ws] = inflight[ws]
           /\ lastReq'[ws] = lastReq[ws]
           /\ sent'[ws] = sent[ws]
        \/ /\ pc'[ws] = "active"
           /\ inflight'[ws] = <<>>
           /\ lastReq'[ws].n = lastReq[ws].n
           /\ lastReq'[ws].kind = "frame"
           /\ nrecv' = nrecv

\* C26: while one connection awaits the inference boundary the other
\* connections can have pings and frames handled; on the waiting connection
\* no further message is handled until the boundary call is over; and at
\* most one boundary call is in flight on a connection.
C26_OneBoundaryCallPerConnection ==
    /\ [](\A ws \in Conns : OneInFlight(ws) /\ OthersGoOn(ws))
    /\ [][\A ws \in Conns : Suspended(ws)]_vars

\* One connection awaits the boundary for an earlier frame while another has
\* been answered a ping that arrived later.
C26_Witness ==
    \E a, b \in Conns :
        /\ pc[a] = "awaiting" /\ Len(inflight[a]) = 1
        /\ pc[b] = "active"
        /\ lastReq[b].kind = "ping"
        /\ lastReq[b].n > lastReq[a].n
        /\ lastReq[b].replies # <<>>

----------------------------------------------------------------------------
\* Claims about the separation of the sessions of RateLimiter.

\* The session of the guardrail call a step makes (the one of the last call
\* when the step makes none).
Called == lastCheck'.session

\* The step is a call of check.
CheckStep == now' = now /\ lastCheck'.op = "check" /\ lastCheck'.at = now

\* The timestamps of the list of s that are less than a second old.
Fresh(s) == {k \in DOMAIN window(s) : now - window(s)[k] < TicksPerSecond}

\* No step changes the list of a session other than the one it is called
\* for, nor whether that session has a list.
OthersUntouched ==
    \A b \in RateSessions \ {Called} :
        /\ b \in DOMAIN _requests' <=> b \in DOMAIN _requests
        /\ b \in DOMAIN _requests => _requests'[b] = _requests[b]

\* The answer of check is told by the list of its own session alone, and the
\* list it leaves is at most limit long and less than a second old.
OwnWindowDecides ==
    CheckStep =>
        /\ lastCheck'.allowed <=> Cardinality(Fresh(Called)) < limit
        /\ Called \in DOMAIN _requests'
        /\ Len(_requests'[Called]) <= limit
        /\ \A k \in DOMAIN _requests'[Called] :
               now - _requests'[Called][k] < TicksPerSecond

====
